---- MODULE Spec2Model ----
(***************************************************************************)
(* ksysguard-mdraid-monitor: the protocol loop of KSysGuardDaemon          *)
(* (daemon.py), the sensors it registers (command.py) and the /proc/mdstat *)
(* snapshot they read (model.py).                                          *)
(*                                                                         *)
(* Text is modelled as a sequence of atoms.  An atom is either one         *)
(* whitespace character or a run of non-whitespace characters that is      *)
(* never split; the text a sequence stands for is the concatenation of     *)
(* its atoms.  A line printed by the daemon is the sequence of its         *)
(* TAB-separated fields.                                                   *)
(***************************************************************************)
EXTENDS Integers, Sequences, FiniteSets, TLC

VARIABLES
    pc,               \* "loop": main_loop waits in input(); "done": main_loop returned;
                      \* "error": an exception left main_loop;
                      \* "norm_start"/"norm_done": the normalisation harness (SpecNorm)
    run_main_loop,    \* KSysGuardDaemon.run_main_loop
    command_table,    \* KSysGuardDaemon.command_table, in insertion order
    raid_status,      \* KSysGuardDaemon.raid_status: the RaidStatus instance held
    raid_status_age,  \* KSysGuardDaemon.raid_status_age (ns)
    min_interval_ms,  \* args.min_interval_ms
    now,              \* the monotonic clock (ns)
    source,           \* /proc/mdstat: whether it exists, and its text
    last_input,       \* what the latest input() call produced: a line, or end of input
    dispatched,       \* whether the latest loop iteration reached the table lookup
    last_cmd,         \* the normalised command of the latest input line
    out,              \* the lines printed by the latest loop iteration
    nreq              \* number of input() calls so far

vars == <<pc, run_main_loop, command_table, raid_status, raid_status_age,
          min_interval_ms, now, source, last_input, dispatched, last_cmd, out, nreq>>

-----------------------------------------------------------------------------
(* Bounds *)

MaxLineLen == 3
MaxRequests == 2
MaxClock == 2
MaxIntervalMs == 1
MaxBlocks == 2

-----------------------------------------------------------------------------
(* Text *)

Whitespace == {" ", "\t"}

WordAtoms == {"quit", "bogus", "?"}

Alphabet == Whitespace \cup WordAtoms

IsSpace(a) == a \in Whitespace

\* The lines of at most n atoms over the alphabet A.
LinesUpTo(A, n) == UNION {[1..k -> A] : k \in 0..n}

\* str.rstrip(): drop the trailing whitespace.
RECURSIVE rstrip(_)
rstrip(s) ==
    IF s = <<>> THEN <<>>
    ELSE IF IsSpace(s[Len(s)]) THEN rstrip(SubSeq(s, 1, Len(s) - 1))
    ELSE s

\* str.lstrip(): drop the leading whitespace.
RECURSIVE lstrip(_)
lstrip(s) ==
    IF s = <<>> THEN <<>>
    ELSE IF IsSpace(Head(s)) THEN lstrip(Tail(s))
    ELSE s

\* The longest prefix of s without whitespace.
RECURSIVE TakeWord(_)
TakeWord(s) ==
    IF s = <<>> \/ IsSpace(Head(s)) THEN <<>>
    ELSE <<Head(s)>> \o TakeWord(Tail(s))

\* str.split(): the maximal runs of non-whitespace, in order.
RECURSIVE split(_)
split(s) ==
    LET t == lstrip(s) IN
    IF t = <<>> THEN <<>>
    ELSE LET w == TakeWord(t) IN
         <<w>> \o split(SubSeq(t, Len(w) + 1, Len(t)))

\* The text a sequence of atoms stands for.
RECURSIVE Text(_)
Text(s) == IF s = <<>> THEN "" ELSE Head(s) \o Text(Tail(s))

\* A sketch of a wrong normalisation: the truncation to the first token is lost.
preprocess_keeps_arguments(read_command) ==
    LET stripped == rstrip(read_command)
        cleared  == IF lstrip(stripped) # stripped THEN <<>> ELSE stripped
    IN  Text(cleared)

\* A sketch of a wrong normalisation: leading whitespace does not empty the line.
preprocess_ignores_leading_space(read_command) ==
    LET stripped == rstrip(read_command)
    IN  IF stripped # <<>> THEN Text(split(stripped)[1]) ELSE ""

\* KSysGuardDaemon._preprocess_input_command
preprocess_input_command(read_command) ==
    LET stripped == rstrip(read_command)
        cleared  == IF lstrip(stripped) # stripped THEN <<>> ELSE stripped
    IN  IF cleared # <<>> THEN Text(split(cleared)[1]) ELSE ""

-----------------------------------------------------------------------------
(* /proc/mdstat (model.py).  A line of the file is a record: its kind says   *)
(* which of the module's patterns the (stripped) line matches.               *)

\* A line beginning with one of the prefixes _should_skip_line ignores.
SkipLine == [kind |-> "skip"]
\* A line that is empty once stripped.
BlankLine == [kind |-> "blank"]
\* A line header_parser matches: "mdN : (in)active LEVEL COMPONENTS".
HeaderLine(dev, active, comps) ==
    [kind |-> "header", md_device |-> dev, is_active |-> active, components |-> comps]
\* A line block_parser matches: "N blocks ... [EXPECTED/CURRENT] [UU]".
BlocksLine(expected, current) ==
    [kind |-> "blocks", expected_device_count |-> expected, current_device_count |-> current]
\* A bitmap summary: "bitmap: USED/TOTAL pages [nKB], nKB chunk".
BitmapLine(used, total, size_used, chunk_size) ==
    [kind |-> "bitmap", used_pages_count |-> used, total_pages_count |-> total,
     size_used_kb |-> size_used, bitmap_chunk_size_kb |-> chunk_size]
\* A line activity_parser matches: "[==>..] MODE = P.P% (CUR/TOTAL) finish=E.Emin" and,
\* optionally, " speed=nK/sec"; has_speed tells whether that group took part in the
\* match.  The two decimal fractions are held in tenths.
ActivityLine(mode, progress, current_block, eta_min, has_speed, speed) ==
    [kind |-> "activity", activity_mode |-> mode, progress |-> progress,
     current_block |-> current_block, eta_min |-> eta_min,
     has_speed |-> has_speed, speed |-> speed]
\* A non-empty line none of the patterns matches.
OtherLine == [kind |-> "other"]

\* The result of a call that raised.
Raised == [ok |-> FALSE]

\* RaidStatus._should_skip_line
should_skip_line(line) == line.kind = "skip"

\* RaidDeviceInfo._parse_header_line: header_result is None when the line does not match.
parse_header_line(line) ==
    IF line.kind # "header" THEN Raised
    ELSE [ok |-> TRUE, md_device |-> line.md_device, is_active |-> line.is_active,
          component_devices |-> line.components]

\* A sketch of a wrong reading of "[n/m]": the two counts taken in the other order.
parse_block_count_line_swapped(line) ==
    IF line.kind # "blocks" THEN Raised
    ELSE [ok |-> TRUE, expected_device_count |-> line.current_device_count,
          current_device_count |-> line.expected_device_count]

\* RaidDeviceInfo._parse_block_count_line
parse_block_count_line(line) ==
    IF line.kind # "blocks" THEN Raised
    ELSE [ok |-> TRUE, expected_device_count |-> line.expected_device_count,
          current_device_count |-> line.current_device_count]

\* The size group of bitmap_parser is \d: one digit.
MaxSizeUsedKb == 9

\* RaidDeviceInfo._parse_bitmap_line: bitmap_result is None when the line does not
\* match, as when the used size has more than one digit.
parse_bitmap_line(line) ==
    IF line.kind # "bitmap" \/ line.size_used_kb > MaxSizeUsedKb THEN Raised
    ELSE [ok |-> TRUE, bitmap_used_pages |-> line.used_pages_count,
          bitmap_total_pages |-> line.total_pages_count,
          bitmap_used_size_kb |-> line.size_used_kb,
          bitmap_chunk_size_kb |-> line.bitmap_chunk_size_kb]

\* RaidDeviceInfo._parse_activity_line: int(None) raises when the speed group is absent.
parse_activity_line(line) ==
    IF line.kind # "activity" \/ ~line.has_speed THEN Raised
    ELSE [ok |-> TRUE, current_activity |-> line.activity_mode,
          progress_percent |-> line.progress,
          currently_processed_block |-> line.current_block,
          activity_eta_minutes |-> line.eta_min,
          speed_kbytes_per_sec |-> line.speed]

\* RaidDeviceInfo.__init__(*block_lines): two required and two optional lines.
RaidDeviceInfo(block_lines) ==
    IF Len(block_lines) < 2 \/ Len(block_lines) > 4 THEN Raised
    ELSE
    LET n       == Len(block_lines)
        header  == parse_header_line(block_lines[1])
        blocks  == parse_block_count_line(block_lines[2])
        l3bitmap == n >= 3 /\ block_lines[3].kind = "bitmap"   \* line_3.startswith("bitmap")
        l3activity == n >= 3 /\ ~l3bitmap
        bitmap3 == IF l3bitmap THEN parse_bitmap_line(block_lines[3]) ELSE Raised
        activity == IF l3activity THEN parse_activity_line(block_lines[3]) ELSE Raised
        bitmap4 == IF n = 4 THEN parse_bitmap_line(block_lines[4]) ELSE Raised
        \* the bitmap line whose fields are kept: line_4 is read after line_3
        bitmap  == IF n = 4 THEN bitmap4 ELSE bitmap3
    IN  IF ~header.ok \/ ~blocks.ok THEN Raised
        ELSE IF l3bitmap /\ ~bitmap3.ok THEN Raised
        ELSE IF l3activity /\ ~activity.ok THEN Raised
        ELSE IF n = 4 /\ ~bitmap4.ok THEN Raised
        ELSE [ok |-> TRUE,
              md_device |-> header.md_device,
              is_active |-> header.is_active,
              component_devices |-> header.component_devices,
              expected_device_count |-> blocks.expected_device_count,
              current_device_count |-> blocks.current_device_count,
              current_activity |-> IF l3activity THEN activity.current_activity ELSE "idle",
              progress_percent |-> IF l3activity THEN activity.progress_percent ELSE 0,
              currently_processed_block |->
                  IF l3activity THEN activity.currently_processed_block ELSE 0,
              activity_eta_minutes |-> IF l3activity THEN activity.activity_eta_minutes ELSE 0,
              speed_kbytes_per_sec |-> IF l3activity THEN activity.speed_kbytes_per_sec ELSE 0,
              has_bitmap |-> l3bitmap \/ n = 4,
              bitmap_used_pages |-> IF l3bitmap \/ n = 4 THEN bitmap.bitmap_used_pages ELSE 0,
              bitmap_total_pages |-> IF l3bitmap \/ n = 4 THEN bitmap.bitmap_total_pages ELSE 0,
              bitmap_used_size_kb |->
                  IF l3bitmap \/ n = 4 THEN bitmap.bitmap_used_size_kb ELSE 0,
              bitmap_chunk_size_kb |->
                  IF l3bitmap \/ n = 4 THEN bitmap.bitmap_chunk_size_kb ELSE 0]

\* RaidStatus._parse_device_info: the loop over the lines from line i on, with the
\* block lines collected so far and the records yielded so far.  A block is built
\* when a blank line is met; lines left in block_lines at the end yield nothing.
RECURSIVE parse_from(_, _, _, _)
parse_from(mdstat, i, block_lines, yielded) ==
    IF i > Len(mdstat) THEN [ok |-> TRUE, device_info |-> yielded]
    ELSE LET line == mdstat[i] IN
         IF should_skip_line(line) THEN parse_from(mdstat, i + 1, block_lines, yielded)
         ELSE IF line.kind # "blank"
              THEN parse_from(mdstat, i + 1, Append(block_lines, line), yielded)
         ELSE LET device == RaidDeviceInfo(block_lines) IN
              IF ~device.ok THEN Raised
              ELSE parse_from(mdstat, i + 1, <<>>, Append(yielded, device))

\* RaidStatus._parse_device_info
parse_device_info(mdstat) == parse_from(mdstat, 1, <<>>, <<>>)

\* RaidStatus.__init__ with mdstat = None, _read_status_from_proc included: raises
\* when the file does not exist or a block does not parse.
RaidStatus(src) ==
    IF ~src.exists THEN Raised ELSE parse_device_info(src.text)

RECURSIVE SumComponents(_)
SumComponents(devs) ==
    IF devs = <<>> THEN 0
    ELSE Len(Head(devs).component_devices) + SumComponents(Tail(devs))

\* RaidStatus.total_device_count
total_device_count(rs) == Len(rs.device_info)

\* RaidStatus.active_device_count
active_device_count(rs) ==
    LET Active(d) == d.is_active IN Len(SelectSeq(rs.device_info, Active))

\* A sketch of a wrong failed count: the degraded devices instead of the inactive.
inactive_device_count_degraded(rs) ==
    LET Degraded(d) == d.current_device_count < d.expected_device_count
    IN  Len(SelectSeq(rs.device_info, Degraded))

\* RaidStatus.inactive_device_count
inactive_device_count(rs) ==
    LET Inactive(d) == ~d.is_active IN Len(SelectSeq(rs.device_info, Inactive))

\* A sketch of a wrong degraded count: every device whose two counts differ.
degraded_device_count_unequal(rs) ==
    LET Unequal(d) == d.current_device_count # d.expected_device_count
    IN  Len(SelectSeq(rs.device_info, Unequal))

\* RaidStatus.degraded_device_count
degraded_device_count(rs) ==
    LET Degraded(d) == d.current_device_count < d.expected_device_count
    IN  Len(SelectSeq(rs.device_info, Degraded))

\* RaidStatus.total_component_count
total_component_count(rs) == SumComponents(rs.device_info)

\* RaidStatus.bitmap_device_count
bitmap_device_count(rs) ==
    LET Bitmap(d) == d.has_bitmap IN Len(SelectSeq(rs.device_info, Bitmap))

-----------------------------------------------------------------------------
(* Sensors (command.py) *)

\* The value of a property that returns None.
None == "None"

\* str() of an integer, as print() and the f-strings apply it.
str(n) == ToString(n)

\* The module-level names of command.py, in the name order inspect.getmembers
\* returns them, with what the predicate of _get_all_monitor_classes asks of each.
CommandModuleMembers == <<
    [name |-> "AbstractMonitor",     isclass |-> TRUE,  is_monitor |-> TRUE],
    [name |-> "ActiveDeviceCount",   isclass |-> TRUE,  is_monitor |-> TRUE],
    [name |-> "DegradedDeviceCount", isclass |-> TRUE,  is_monitor |-> TRUE],
    [name |-> "FailedDeviceCount",   isclass |-> TRUE,  is_monitor |-> TRUE],
    [name |-> "KSysGuardDaemon",     isclass |-> TRUE,  is_monitor |-> FALSE],
    [name |-> "Namespace",           isclass |-> TRUE,  is_monitor |-> FALSE],
    [name |-> "RaidStatus",          isclass |-> TRUE,  is_monitor |-> FALSE],
    [name |-> "TotalComponentCount", isclass |-> TRUE,  is_monitor |-> TRUE],
    [name |-> "TotalDeviceCount",    isclass |-> TRUE,  is_monitor |-> TRUE],
    [name |-> "abstractmethod",      isclass |-> FALSE, is_monitor |-> FALSE],
    [name |-> "collections",         isclass |-> FALSE, is_monitor |-> FALSE],
    [name |-> "constants",           isclass |-> FALSE, is_monitor |-> FALSE],
    [name |-> "time",                isclass |-> FALSE, is_monitor |-> FALSE],
    [name |-> "typing",              isclass |-> FALSE, is_monitor |-> FALSE] >>

\* KSysGuardDaemon._get_all_monitor_classes: the names of the classes found.
get_all_monitor_classes ==
    LET Pred(m) == m.isclass /\ m.is_monitor /\ m.name # "AbstractMonitor"
        members == SelectSeq(CommandModuleMembers, Pred)
    IN  [i \in 1..Len(members) |-> members[i].name]

\* <Class>.command
command(cls) ==
    CASE cls = "TotalDeviceCount"    -> "SoftRaid/TotalDevices"
      [] cls = "ActiveDeviceCount"   -> "SoftRaid/ActiveDevices"
      [] cls = "FailedDeviceCount"   -> "SoftRaid/FailedDevices"
      [] cls = "DegradedDeviceCount" -> "SoftRaid/DegradedDevices"
      [] cls = "TotalComponentCount" -> "SoftRaid/TotalComponents"
      [] OTHER                       -> None    \* the abstract property: pass

\* The RaidStatus property <Class>.command_value reads.
metric(cls) ==
    CASE cls = "TotalDeviceCount"    -> "total_device_count"
      [] cls = "ActiveDeviceCount"   -> "active_device_count"
      [] cls = "FailedDeviceCount"   -> "inactive_device_count"
      [] cls = "DegradedDeviceCount" -> "degraded_device_count"
      [] cls = "TotalComponentCount" -> "total_component_count"
      [] OTHER                       -> None

\* <Class>.command_value, on the daemon's current snapshot rs
command_value(cls, rs) ==
    CASE cls = "TotalDeviceCount"    -> str(total_device_count(rs))
      [] cls = "ActiveDeviceCount"   -> str(active_device_count(rs))
      [] cls = "FailedDeviceCount"   -> str(inactive_device_count(rs))
      [] cls = "DegradedDeviceCount" -> str(degraded_device_count(rs))
      [] cls = "TotalComponentCount" -> str(total_component_count(rs))
      [] OTHER                       -> None

\* <Class>.output_type
output_type(cls) == IF cls = "AbstractMonitor" THEN None ELSE "integer"

\* <Class>.description
description(cls) ==
    CASE cls = "TotalDeviceCount"    -> "Total device count"
      [] cls = "ActiveDeviceCount"   -> "Active device count"
      [] cls = "FailedDeviceCount"   -> "Failed device count"
      [] cls = "DegradedDeviceCount" -> "Degraded device count"
      [] cls = "TotalComponentCount" -> "Total component count"
      [] OTHER                       -> None

\* <Class>.min
min(cls, rs) == IF cls = "AbstractMonitor" THEN None ELSE str(0)

\* A sketch of a wrong maximum: a figure fixed when the class is written.
max_fixed(cls, rs) == IF cls = "AbstractMonitor" THEN None ELSE str(0)

\* <Class>.max
max(cls, rs) ==
    CASE cls \in {"TotalDeviceCount", "TotalComponentCount"} -> str(0)
      [] cls \in {"ActiveDeviceCount", "FailedDeviceCount", "DegradedDeviceCount"}
            -> str(total_device_count(rs))
      [] OTHER -> None

\* <Class>.unit
unit(cls) == None

\* AbstractMonitor.command_monitor_output: one line, its fields joined by TAB
command_monitor_output(cls) == <<command(cls), output_type(cls)>>

\* AbstractMonitor.command_info: the line it prints
command_info(cls, rs) ==
    IF unit(cls) = None
    THEN <<description(cls), min(cls, rs), max(cls, rs)>>
    ELSE <<description(cls), min(cls, rs), max(cls, rs), unit(cls)>>

\* AbstractMonitor.__call__: the line it prints
monitor_call(cls, rs) == <<command_value(cls, rs)>>

-----------------------------------------------------------------------------
(* The command table (daemon.py).  A dict keeps its keys in insertion order; *)
(* an entry binds a key to a handler.                                        *)

\* What a key is bound to.  "monitor" is the AbstractMonitor instance itself,
\* "info" its bound method command_info.
Handler(kind, cls) == [kind |-> kind, cls |-> cls]

Keys(table) == {table[i].key : i \in 1..Len(table)}

\* dict.__getitem__ for a key that is present
TableGet(table, key) ==
    table[CHOOSE i \in 1..Len(table) : table[i].key = key].handler

\* dict.__setitem__: a new key goes last, a present key keeps its place
TableSet(table, key, handler) ==
    IF key \in Keys(table)
    THEN [i \in 1..Len(table) |->
            IF table[i].key = key THEN [key |-> key, handler |-> handler] ELSE table[i]]
    ELSE Append(table, [key |-> key, handler |-> handler])

\* A sketch of a wrong registration: the info entry is bound to the monitor itself.
register_monitor_info_as_value(command_table_, command_class) ==
    LET with_value == TableSet(command_table_, command(command_class),
                               Handler("monitor", command_class))
    IN  TableSet(with_value, command(command_class) \o "?",
                 Handler("monitor", command_class))

\* KSysGuardDaemon.register_monitor
register_monitor(command_table_, command_class) ==
    LET with_value == TableSet(command_table_, command(command_class),
                               Handler("monitor", command_class))
    IN  TableSet(with_value, command(command_class) \o "?",
                 Handler("info", command_class))

RECURSIVE register_all(_, _)
register_all(command_table_, classes) ==
    IF classes = <<>> THEN command_table_
    ELSE register_all(register_monitor(command_table_, Head(classes)), Tail(classes))

\* KSysGuardDaemon._build_command_table
build_command_table ==
    LET builtins == <<[key |-> "monitors", handler |-> Handler("monitors", None)],
                      [key |-> "quit",     handler |-> Handler("quit", None)],
                      [key |-> "",         handler |-> Handler("empty", None)]>>
    IN  register_all(builtins, get_all_monitor_classes)

\* A sketch of a wrong fallback: a missing key yields the do-nothing handler.
table_lookup_silent(table, key) ==
    IF key \in Keys(table)
    THEN [command_table |-> table, handler |-> TableGet(table, key)]
    ELSE [command_table |-> Append(table, [key |-> key, handler |-> Handler("empty", None)]),
          handler |-> Handler("empty", None)]

\* self.command_table[read_command] on the defaultdict of _build_command_table: a
\* missing key is first bound to default_factory(), i.e. command_not_found_error.
table_lookup(table, key) ==
    IF key \in Keys(table)
    THEN [command_table |-> table, handler |-> TableGet(table, key)]
    ELSE [command_table |-> Append(table, [key |-> key, handler |-> Handler("not_found", None)]),
          handler |-> Handler("not_found", None)]

\* KSysGuardDaemon.command_not_found_error: the lines it prints
command_not_found_error == << <<"UNKNOWN COMMAND">> >>

\* A sketch of a wrong listing: the isinstance test is lost.
command_monitors_unfiltered(table) ==
    [i \in 1..Len(table) |-> command_monitor_output(table[i].handler.cls)]

\* KSysGuardDaemon.command_monitors: the lines it prints
command_monitors(table) ==
    LET IsMonitor(e) == e.handler.kind = "monitor"    \* isinstance(cmd, AbstractMonitor)
        monitors == SelectSeq(table, IsMonitor)
    IN  [i \in 1..Len(monitors) |-> command_monitor_output(monitors[i].handler.cls)]

\* A sketch of a wrong quit: the flag is left set.
command_quit_noop == TRUE

\* KSysGuardDaemon.command_quit: the value it gives run_main_loop
command_quit == FALSE

\* Calling the handler a lookup returned: the lines printed and run_main_loop after it.
call_handler(handler, table, rs, run) ==
    CASE handler.kind = "monitors"  -> [out |-> command_monitors(table), run_main_loop |-> run]
      [] handler.kind = "quit"      -> [out |-> <<>>, run_main_loop |-> command_quit]
      [] handler.kind = "empty"     -> [out |-> <<>>, run_main_loop |-> run]
      [] handler.kind = "not_found" -> [out |-> command_not_found_error, run_main_loop |-> run]
      [] handler.kind = "monitor"   -> [out |-> <<monitor_call(handler.cls, rs)>>,
                                        run_main_loop |-> run]
      [] handler.kind = "info"      -> [out |-> <<command_info(handler.cls, rs)>>,
                                        run_main_loop |-> run]

-----------------------------------------------------------------------------
(* The snapshot cache (daemon.py) *)

\* Nanoseconds per millisecond: the factor of _read_raid_status.
NsPerMs == 1000000

\* The clock is observed in steps of a millisecond.
Tick == NsPerMs

\* A RaidStatus instance: id tells instances apart, built_at is the time of the
\* RaidStatus() call that made it.
Snapshot(id, t, device_info) == [id |-> id, built_at |-> t, device_info |-> device_info]

\* A sketch of a wrong staleness test: a snapshot exactly min_interval old is kept.
IsStale_strict(age, interval_ms, t) == age + interval_ms * NsPerMs < t

\* The test of _read_raid_status
IsStale(age, interval_ms, t) == age + interval_ms * NsPerMs <= t

\* A sketch of a wrong refresh: the staleness test is lost.
read_raid_status_unthrottled(rs, age, interval_ms, t, src, id) ==
    LET fresh == RaidStatus(src) IN
    IF fresh.ok
    THEN [ok |-> TRUE, raid_status |-> Snapshot(id, t, fresh.device_info)]
    ELSE [ok |-> FALSE, raid_status |-> rs]

\* A sketch of a wrong refresh: a failed parse leaves an empty snapshot behind.
read_raid_status_clears_on_failure(rs, age, interval_ms, t, src, id) ==
    IF IsStale(age, interval_ms, t)
    THEN LET fresh == RaidStatus(src) IN
         IF fresh.ok
         THEN [ok |-> TRUE, raid_status |-> Snapshot(id, t, fresh.device_info)]
         ELSE [ok |-> FALSE, raid_status |-> Snapshot(id, t, <<>>)]
    ELSE [ok |-> TRUE, raid_status |-> rs]

\* KSysGuardDaemon._read_raid_status at time t, with src the file's state and id the
\* identity a new instance gets.  ok is FALSE when RaidStatus() raised.
read_raid_status(rs, age, interval_ms, t, src, id) ==
    IF IsStale(age, interval_ms, t)
    THEN LET fresh == RaidStatus(src) IN
         IF fresh.ok
         THEN [ok |-> TRUE, raid_status |-> Snapshot(id, t, fresh.device_info)]
         ELSE [ok |-> FALSE, raid_status |-> rs]
    ELSE [ok |-> TRUE, raid_status |-> rs]

-----------------------------------------------------------------------------
(* The states of /proc/mdstat the environment moves between *)

Missing == [exists |-> FALSE, text |-> <<>>]

\* No array: the Personalities line and the "unused devices:" line.
StatNone == [exists |-> TRUE, text |-> <<SkipLine, SkipLine>>]

\* Two active arrays, the second with one of its two components present.
StatTwo == [exists |-> TRUE, text |-> <<
    SkipLine,
    HeaderLine("0", TRUE, <<"sdb1[1]", "sda1[0]">>), BlocksLine(2, 2), BlankLine,
    HeaderLine("1", TRUE, <<"sdc1[0]">>), BlocksLine(2, 1), BlankLine,
    SkipLine >>]

\* Three arrays: one with a bitmap, one inactive, one resyncing.
StatThree == [exists |-> TRUE, text |-> <<
    SkipLine,
    HeaderLine("0", TRUE, <<"sdb1[1]", "sda1[0]">>), BlocksLine(2, 2), BitmapLine(1, 4, 4, 65536),
    BlankLine,
    HeaderLine("1", FALSE, <<"sdc1[0]">>), BlocksLine(2, 1), BlankLine,
    HeaderLine("2", TRUE, <<"sde1[1]", "sdd1[0]">>), BlocksLine(2, 2),
    ActivityLine("resync", 126, 1000, 12, TRUE, 100), BlankLine,
    SkipLine >>]

\* An array whose second line block_parser does not match.
StatBroken == [exists |-> TRUE, text |-> <<
    SkipLine,
    HeaderLine("0", TRUE, <<"sdb1[1]", "sda1[0]">>), OtherLine, BlankLine,
    SkipLine >>]

Sources == {Missing, StatNone, StatTwo, StatThree, StatBroken}

-----------------------------------------------------------------------------
(* What the client sends *)

SensorCommands == {command(get_all_monitor_classes[i]) : i \in 1..Len(get_all_monitor_classes)}

TypedWords == {"quit", "monitors", "bogus"} \cup SensorCommands

InputLines ==
    {<<>>, <<" ">>}
    \cup {<<w>> : w \in TypedWords}
    \cup {<<w, "?">> : w \in SensorCommands \cup {"bogus"}}
    \cup {<<"\t", w>> : w \in TypedWords}
    \cup {<<"quit", " ">>, <<"quit", " ", "bogus">>, <<"monitors", "\t", "bogus">>}

Line(l) == [eof |-> FALSE, line |-> l]
EndOfFile == [eof |-> TRUE, line |-> <<>>]

-----------------------------------------------------------------------------
(* The daemon *)

\* KSysGuardDaemon.__init__, then main_loop up to its first input(): the file is
\* readable and well-formed, or the constructor would have raised.
Init ==
    /\ pc = "loop"
    /\ run_main_loop = TRUE
    /\ command_table = build_command_table
    /\ source \in {s \in Sources : RaidStatus(s).ok}
    /\ raid_status = Snapshot(0, 0, RaidStatus(source).device_info)
    /\ raid_status_age = 0
    /\ now = 0
    /\ min_interval_ms \in 0..MaxIntervalMs
    /\ last_input = Line(<<>>)
    /\ dispatched = FALSE
    /\ last_cmd = ""
    /\ out = <<>>
    /\ nreq = 0

\* One iteration of main_loop in which input() returns a line, dt ticks after the
\* previous iteration: the staleness check, the normalisation, the lookup, the call.
Request(l, dt) ==
    /\ pc = "loop"
    /\ run_main_loop
    /\ nreq < MaxRequests
    /\ now + dt * Tick <= MaxClock * Tick
    /\ LET t       == now + dt * Tick
           refresh == read_raid_status(raid_status, raid_status_age, min_interval_ms,
                                       t, source, nreq + 1)
           cmd     == preprocess_input_command(l)
           found   == table_lookup(command_table, cmd)
           result  == call_handler(found.handler, found.command_table,
                                   refresh.raid_status, run_main_loop)
       IN  /\ now' = t
           /\ nreq' = nreq + 1
           /\ last_input' = Line(l)
           /\ last_cmd' = cmd
           /\ raid_status' = refresh.raid_status
           /\ IF refresh.ok
              THEN /\ dispatched' = TRUE
                   /\ command_table' = found.command_table
                   /\ out' = result.out
                   /\ run_main_loop' = result.run_main_loop
                   /\ pc' = IF result.run_main_loop THEN "loop" ELSE "done"
              ELSE /\ dispatched' = FALSE
                   /\ command_table' = command_table
                   /\ out' = <<>>
                   /\ run_main_loop' = run_main_loop
                   /\ pc' = "error"
    /\ UNCHANGED <<raid_status_age, min_interval_ms, source>>

\* One iteration of main_loop in which input() raises EOFError.
EndOfInput(dt) ==
    /\ pc = "loop"
    /\ run_main_loop
    /\ nreq < MaxRequests
    /\ now + dt * Tick <= MaxClock * Tick
    /\ now' = now + dt * Tick
    /\ nreq' = nreq + 1
    /\ last_input' = EndOfFile
    /\ last_cmd' = ""
    /\ dispatched' = FALSE
    /\ out' = <<>>
    /\ run_main_loop' = command_quit
    /\ pc' = IF command_quit THEN "loop" ELSE "done"
    /\ UNCHANGED <<command_table, raid_status, raid_status_age, min_interval_ms, source>>

\* The environment: /proc/mdstat changes, or goes away.
SourceChange(s) ==
    /\ s # source
    /\ source' = s
    /\ UNCHANGED <<pc, run_main_loop, command_table, raid_status, raid_status_age,
                   min_interval_ms, now, last_input, dispatched, last_cmd, out, nreq>>

Next ==
    \/ \E l \in InputLines, dt \in 0..MaxClock : Request(l, dt)
    \/ \E dt \in 0..MaxClock : EndOfInput(dt)
    \/ \E s \in Sources : SourceChange(s)

Spec == Init /\ [][Next]_vars

-----------------------------------------------------------------------------
(* The normalisation alone, on every line of at most MaxLineLen atoms *)

NormInit ==
    /\ pc = "norm_start"
    /\ last_input \in {Line(l) : l \in LinesUpTo(Alphabet, MaxLineLen)}
    /\ last_cmd = ""
    /\ dispatched = FALSE
    /\ run_main_loop = TRUE
    /\ command_table = build_command_table
    /\ source = StatNone
    /\ raid_status = Snapshot(0, 0, <<>>)
    /\ raid_status_age = 0
    /\ now = 0
    /\ min_interval_ms = 0
    /\ out = <<>>
    /\ nreq = 0

Normalise ==
    /\ pc = "norm_start"
    /\ pc' = "norm_done"
    /\ last_cmd' = preprocess_input_command(last_input.line)
    /\ UNCHANGED <<run_main_loop, command_table, raid_status, raid_status_age,
                   min_interval_ms, now, source, last_input, dispatched, out, nreq>>

NormNext == Normalise

SpecNorm == NormInit /\ [][NormNext]_vars

-----------------------------------------------------------------------------
(* The parser alone, on texts of at most MaxBlocks terminated blocks *)

ActiveHeader   == HeaderLine("0", TRUE, <<"sdb1[1]", "sda1[0]">>)
InactiveHeader == HeaderLine("1", FALSE, <<"sdc1[0]">>)
Bitmap14       == BitmapLine(1, 4, 4, 65536)
Bitmap34       == BitmapLine(3, 4, 12, 65536)
Resync         == ActivityLine("resync", 126, 1000, 12, TRUE, 100)
ResyncNoSpeed  == ActivityLine("resync", 126, 1000, 12, FALSE, 0)

\* The runs of non-blank lines the texts are made of: blocks of two, three and four
\* lines, and runs that are no block.
BlockShapes == {
    <<ActiveHeader, BlocksLine(2, 2)>>,
    <<InactiveHeader, BlocksLine(2, 1)>>,
    <<ActiveHeader, BlocksLine(1, 2)>>,
    <<ActiveHeader, BlocksLine(2, 2), Bitmap14>>,
    <<ActiveHeader, BlocksLine(2, 2), Bitmap34>>,
    <<ActiveHeader, BlocksLine(2, 1), Resync>>,
    <<InactiveHeader, BlocksLine(2, 1), Resync, Bitmap14>>,
    <<ActiveHeader, BlocksLine(2, 1), ResyncNoSpeed>>,
    <<OtherLine, BlocksLine(2, 2)>>,
    <<ActiveHeader, OtherLine>>,
    <<ActiveHeader>> }

\* A run followed by the blank line that ends it
Terminated(run) == run \o <<BlankLine>>

RECURSIVE Flatten(_)
Flatten(seqs) == IF seqs = <<>> THEN <<>> ELSE Head(seqs) \o Flatten(Tail(seqs))

\* How a text ends: with the "unused devices:" line right after the last blank
\* line, with one more blank line before it, or with a run no blank line follows.
Endings ==
    {<<SkipLine>>, <<BlankLine, SkipLine>>}
    \cup {run \o <<SkipLine>> : run \in BlockShapes}
    \cup {run : run \in BlockShapes}

\* The texts: the Personalities line, at most MaxBlocks terminated runs, an ending.
ParseTexts ==
    {<<SkipLine>> \o Flatten([i \in 1..Len(runs) |-> Terminated(runs[i])]) \o ending :
        runs \in UNION {[1..k -> BlockShapes] : k \in 0..MaxBlocks},
        ending \in Endings}

\* /proc/mdstat holds one of the texts, or is not there; nothing is parsed yet.
ParseInit ==
    /\ pc = "parse_start"
    /\ source \in {[exists |-> TRUE, text |-> t] : t \in ParseTexts} \cup {Missing}
    /\ raid_status = Snapshot(0, 0, <<>>)
    /\ raid_status_age = 0
    /\ now = 0
    /\ min_interval_ms = 0
    /\ run_main_loop = TRUE
    /\ command_table = build_command_table
    /\ last_input = Line(<<>>)
    /\ dispatched = FALSE
    /\ last_cmd = ""
    /\ out = <<>>
    /\ nreq = 0

\* RaidStatus(): the instance is bound only if the constructor returns.
Parse ==
    /\ pc = "parse_start"
    /\ LET fresh == RaidStatus(source) IN
       IF fresh.ok
       THEN /\ pc' = "parse_done"
            /\ raid_status' = Snapshot(1, now, fresh.device_info)
       ELSE /\ pc' = "parse_error"
            /\ raid_status' = raid_status
    /\ UNCHANGED <<run_main_loop, command_table, raid_status_age, min_interval_ms, now,
                   source, last_input, dispatched, last_cmd, out, nreq>>

ParseNext == Parse

SpecParse == ParseInit /\ [][ParseNext]_vars

-----------------------------------------------------------------------------
(* Properties *)

\* The keys _build_command_table binds: the built-ins, and per sensor its name and
\* its name followed by "?".
RegisteredKeys ==
    {"monitors", "quit", ""} \cup SensorCommands \cup {c \o "?" : c \in SensorCommands}

IsUnknownCommand(cmd) == cmd \notin RegisteredKeys

UnknownLine == << <<"UNKNOWN COMMAND">> >>

\* The step is a loop iteration that read an input line.
IsLineStep == nreq' = nreq + 1 /\ ~last_input'.eof

\* C1: a request handled less than min_interval after the snapshot held was built
\* (at start-up or by a refresh) does not re-parse: it is served from the identical
\* RaidStatus instance.
C1_CacheThrottle ==
    [][ (IsLineStep /\ now' - raid_status.built_at < min_interval_ms * NsPerMs)
            => raid_status' = raid_status ]_vars

\* C2: whenever a command that is neither a built-in nor a sensor name nor a sensor
\* name followed by "?" is dispatched, exactly the line UNKNOWN COMMAND is printed
\* and the loop keeps running, whatever was sent before.
C2_UnknownCommand ==
    (dispatched /\ IsUnknownCommand(last_cmd))
        => (out = UnknownLine /\ run_main_loop /\ pc = "loop")

\* An unknown command dispatched after another unknown command was looked up.
C2_Witness ==
    /\ dispatched /\ IsUnknownCommand(last_cmd) /\ nreq = 2 /\ pc = "loop"
    /\ Cardinality({k \in Keys(command_table) : IsUnknownCommand(k)}) = 2

\* C3 as stated: a request for an unknown command leaves the command table,
\* run_main_loop and the pair (raid_status, raid_status_age) as they were.
C3_UnknownAltersNothing ==
    [][ (IsLineStep /\ IsUnknownCommand(last_cmd'))
            => /\ command_table' = command_table
               /\ run_main_loop' = run_main_loop
               /\ raid_status' = raid_status
               /\ raid_status_age' = raid_status_age ]_vars

\* C3 amended: a request for an unknown command leaves run_main_loop and every entry
\* the table already had (key, handler and place) as they were; the table gains at
\* most the unknown string as a new last key, bound to the not-found handler; and
\* the pair (raid_status, raid_status_age) changes only by the staleness refresh
\* that precedes dispatch, i.e. only if the interval since raid_status_age is over.
C3_UnknownFrame ==
    [][ (IsLineStep /\ IsUnknownCommand(last_cmd'))
            => /\ run_main_loop' = run_main_loop
               /\ command_table' \in
                    {command_table,
                     Append(command_table,
                            [key |-> last_cmd', handler |-> Handler("not_found", None)])}
               /\ dispatched' =>
                    /\ last_cmd' \in Keys(command_table')
                    /\ TableGet(command_table', last_cmd') = Handler("not_found", None)
               /\ (raid_status' # raid_status \/ raid_status_age' # raid_status_age)
                    => IsStale(raid_status_age, min_interval_ms, now') ]_vars

\* An unknown command whose request added its key and replaced the snapshot.
C3_Witness ==
    /\ dispatched /\ IsUnknownCommand(last_cmd) /\ nreq >= 1
    /\ command_table[Len(command_table)].key = last_cmd
    /\ raid_status.id = nreq

\* C4: the request that dispatches quit prints nothing and ends the loop; from then
\* on no input is read, nothing is dispatched and nothing is printed.
C4_QuitTerminates ==
    [][ /\ (dispatched' /\ last_cmd' = "quit")
            => (out' = <<>> /\ ~run_main_loop' /\ pc' = "done")
        /\ (dispatched /\ last_cmd = "quit")
            => /\ nreq' = nreq /\ last_input' = last_input /\ out' = out
               /\ dispatched' /\ last_cmd' = "quit"
               /\ pc' = "done" /\ ~run_main_loop' ]_vars

\* The loop ended by a line whose first token is quit, after an earlier request,
\* and /proc/mdstat has changed since.
C4_Witness ==
    /\ dispatched /\ last_cmd = "quit" /\ pc = "done" /\ nreq = 2
    /\ last_input.line = <<"quit", " ", "bogus">>
    /\ source = Missing

\* C5: end of input and a line that normalises to quit have the same outcome from
\* every running state: nothing printed, the loop terminated, no error.
C5_EofEqualsQuit ==
    (nreq > 0 /\ (last_input.eof \/ last_cmd = "quit"))
        => (out = <<>> /\ pc = "done" /\ ~run_main_loop)

\* The number of atoms left once the trailing whitespace is dropped.
StrippedLen(l) ==
    CHOOSE k \in 0..Len(l) :
        /\ k = 0 \/ ~IsSpace(l[k])
        /\ \A j \in (k + 1)..Len(l) : IsSpace(l[j])

\* The atoms before the first whitespace.
FirstToken(l) ==
    LET k == CHOOSE k \in 0..Len(l) :
                /\ \A j \in 1..k : ~IsSpace(l[j])
                /\ k = Len(l) \/ IsSpace(l[k + 1])
    IN  SubSeq(l, 1, k)

\* C6: the normalised line is empty if the line, its trailing whitespace dropped, is
\* empty or begins with whitespace; otherwise it is the first whitespace-delimited
\* token.  So it holds no whitespace, and nothing after the first token.
C6_Normalisation ==
    pc = "norm_done" =>
        LET l == last_input.line IN
        /\ (StrippedLen(l) = 0 \/ IsSpace(l[1])) => last_cmd = ""
        /\ (StrippedLen(l) > 0 /\ ~IsSpace(l[1])) =>
              /\ last_cmd = Text(FirstToken(l))
              /\ FirstToken(l) # <<>>
              /\ \A i \in 1..Len(FirstToken(l)) : ~IsSpace(FirstToken(l)[i])

\* A line of two tokens normalised to its first.
C6_Witness ==
    /\ pc = "norm_done"
    /\ last_input.line = <<"quit", "\t", "bogus">>
    /\ last_cmd = "quit"

\* C7: a line that is empty, all whitespace, or begins with whitespace prints
\* nothing and does not end the loop, whatever its first token is.
C7_LeadingSpaceIsEmpty ==
    (nreq > 0 /\ ~last_input.eof
        /\ (last_input.line = <<>> \/ IsSpace(last_input.line[1])))
        => /\ out = <<>>
           /\ run_main_loop
           /\ last_cmd = ""
           /\ dispatched => pc = "loop"

\* TAB then quit: dispatched as the empty command, the loop goes on.
C7_Witness ==
    /\ last_input = Line(<<"\t", "quit">>) /\ dispatched /\ nreq = 2
    /\ pc = "loop" /\ run_main_loop /\ out = <<>>

\* C8: monitors prints one line "<command> TAB <output type>" per registered sensor,
\* in registration order, and nothing else, whatever was sent before.
C8_Monitors ==
    (dispatched /\ last_cmd = "monitors")
        => out = << <<"SoftRaid/ActiveDevices", "integer">>,
                    <<"SoftRaid/DegradedDevices", "integer">>,
                    <<"SoftRaid/FailedDevices", "integer">>,
                    <<"SoftRaid/TotalComponents", "integer">>,
                    <<"SoftRaid/TotalDevices", "integer">> >>

\* monitors dispatched after an unknown command was looked up.
C8_Witness ==
    /\ dispatched /\ last_cmd = "monitors" /\ Len(out) = 5
    /\ \E k \in Keys(command_table) : IsUnknownCommand(k)

\* The classes whose instances the table holds.
RegisteredClasses ==
    {command_table[i].handler.cls :
        i \in {j \in 1..Len(command_table) : command_table[j].handler.kind = "monitor"}}

\* C9: each registered sensor N has exactly two entries, N and N?; dispatching N
\* prints one line with the sensor's current value, dispatching N? one line
\* description TAB min TAB max, with TAB unit appended iff the unit is defined.
C9_SensorEntries ==
    \A cls \in RegisteredClasses :
        /\ {command_table[i].key :
                i \in {j \in 1..Len(command_table) : command_table[j].handler.cls = cls}}
             = {command(cls), command(cls) \o "?"}
        /\ Cardinality({j \in 1..Len(command_table) : command_table[j].handler.cls = cls}) = 2
        /\ (dispatched /\ last_cmd = command(cls))
             => out = << <<command_value(cls, raid_status)>> >>
        /\ (dispatched /\ last_cmd = command(cls) \o "?")
             => LET range == <<description(cls), min(cls, raid_status),
                                max(cls, raid_status)>>
                IN  /\ unit(cls) = None => out = <<range>>
                    /\ unit(cls) # None => out = <<range \o <<unit(cls)>> >>

\* The info query of the active-device sensor on a snapshot of three arrays.
C9_Witness ==
    /\ dispatched /\ last_cmd = "SoftRaid/ActiveDevices?"
    /\ out = << <<"Active device count", "0", "3">> >>

\* The RaidStatus figures the sensors of the specification report: total, active,
\* failed (inactive), degraded and bitmap-enabled device counts, bitmap page usage,
\* total component count.
ListedSensors ==
    {"total_device_count", "active_device_count", "inactive_device_count",
     "degraded_device_count", "bitmap_device_count", "bitmap_used_pages",
     "total_component_count"}

\* C10: the sensors in the command table are the seven listed ones.
C10_SevenSensors ==
    {metric(cls) : cls \in RegisteredClasses} = ListedSensors

\* C11: whenever the snapshot served is that of two active arrays, the first with
\* 2 of 2 and the second with 1 of 2 components present ("[2/2]" and "[2/1]" in the
\* file), the total-, degraded- and active-device requests are answered with the
\* lines 2, 1 and 2, whatever was sent before.
C11_TwoArrays ==
    (dispatched /\ raid_status.device_info = RaidStatus(StatTwo).device_info)
        => /\ last_cmd = "SoftRaid/TotalDevices"    => out = << <<"2">> >>
           /\ last_cmd = "SoftRaid/DegradedDevices" => out = << <<"1">> >>
           /\ last_cmd = "SoftRaid/ActiveDevices"   => out = << <<"2">> >>

\* The degraded-device request answered from that snapshot, as the second request.
C11_Witness ==
    /\ dispatched /\ nreq = 2 /\ source = StatTwo
    /\ raid_status.device_info = RaidStatus(StatTwo).device_info
    /\ last_cmd = "SoftRaid/DegradedDevices" /\ out = << <<"1">> >>

\* C12: a request whose refresh fails (the file is missing, or a block of it does
\* not parse) ends in an error, and the cache is as before the request: raid_status
\* is the previous snapshot and raid_status_age is unchanged.
C12_FailedRefreshKeepsCache ==
    [][ (IsLineStep /\ IsStale(raid_status_age, min_interval_ms, now')
            /\ ~RaidStatus(source).ok)
            => /\ pc' = "error" /\ ~dispatched'
               /\ raid_status' = raid_status
               /\ raid_status_age' = raid_status_age ]_vars

\* The second request fails on a malformed file; the snapshot of three arrays the
\* first request built is still held.
C12_Witness ==
    /\ pc = "error" /\ nreq = 2 /\ source = StatBroken
    /\ raid_status.id = 1 /\ Len(raid_status.device_info) = 3
    /\ raid_status_age = 0

\* The device blocks of a text: the ignorable lines dropped, the maximal runs of
\* non-blank lines, in order, the last one included.
RECURSIVE BlocksFrom(_, _, _, _)
BlocksFrom(text, i, run, runs) ==
    LET closed == IF run = <<>> THEN runs ELSE Append(runs, run) IN
    IF i > Len(text) THEN closed
    ELSE IF text[i].kind = "skip" THEN BlocksFrom(text, i + 1, run, runs)
    ELSE IF text[i].kind = "blank" THEN BlocksFrom(text, i + 1, <<>>, closed)
    ELSE BlocksFrom(text, i + 1, Append(run, text[i]), runs)

Blocks(text) == BlocksFrom(text, 1, <<>>, <<>>)

\* The first line of the block is no header line, or its second no block-count line.
IsMalformedBlock(block) ==
    \/ block[1].kind # "header"
    \/ Len(block) >= 2 /\ block[2].kind # "blocks"

\* C13: if a block of the text has a header or block-count line that does not match
\* the grammar, parsing fails with an error and no snapshot is made of the other
\* blocks.
C13_NoPartialSnapshot ==
    (pc # "parse_start" /\ source.exists
        /\ \E i \in 1..Len(Blocks(source.text)) : IsMalformedBlock(Blocks(source.text)[i]))
        => (pc = "parse_error" /\ raid_status.id = 0)

\* C14: parsing yields one record per device block, in the order of the blocks, the
\* last block included whether or not a blank line follows it; total_device_count
\* is the number of blocks.
C14_OneRecordPerBlock ==
    pc = "parse_done" =>
        LET blocks == Blocks(source.text) IN
        /\ total_device_count(raid_status) = Len(blocks)
        /\ \A i \in 1..Len(blocks) : raid_status.device_info[i] = RaidDeviceInfo(blocks[i])

\* The text in which each of the blocks is followed by a blank line, between the
\* Personalities line and the "unused devices:" line.
TextOf(blocks) ==
    <<SkipLine>> \o Flatten([i \in 1..Len(blocks) |-> Terminated(blocks[i])]) \o <<SkipLine>>

\* A header line and a block-count line, and nothing else
IsPlainBlock(block) ==
    Len(block) = 2 /\ block[1].kind = "header" /\ block[2].kind = "blocks"

\* A header line, a block-count line and a bitmap summary
IsBitmapBlock(block) ==
    /\ Len(block) = 3 /\ block[1].kind = "header" /\ block[2].kind = "blocks"
    /\ block[3].kind = "bitmap"

\* The activity fields of the record are the idle defaults.
HasIdleDefaults(d) ==
    /\ d.current_activity = "idle" /\ d.progress_percent = 0
    /\ d.currently_processed_block = 0 /\ d.activity_eta_minutes = 0
    /\ d.speed_kbytes_per_sec = 0

\* The bitmap fields of the record are those of an absent bitmap.
HasNoBitmap(d) ==
    /\ ~d.has_bitmap
    /\ d.bitmap_used_pages = 0 /\ d.bitmap_total_pages = 0
    /\ d.bitmap_used_size_kb = 0 /\ d.bitmap_chunk_size_kb = 0

\* The bitmap fields of the record are the figures of the bitmap summary.
HasBitmapOf(d, line) ==
    /\ d.has_bitmap
    /\ d.bitmap_used_pages = line.used_pages_count
    /\ d.bitmap_total_pages = line.total_pages_count
    /\ d.bitmap_used_size_kb = line.size_used_kb
    /\ d.bitmap_chunk_size_kb = line.bitmap_chunk_size_kb

\* C15: a text of valid blocks without an activity line parses into one record per
\* block; the record of a 2-line block has no bitmap, its bitmap fields 0 and its
\* activity fields at the idle defaults; the record of a block whose third line
\* is a bitmap summary has has_bitmap true, the bitmap fields of that line and the
\* activity fields at the idle defaults.
C15_BlocksWithoutActivity ==
    LET blocks == Blocks(source.text) IN
    (pc # "parse_start" /\ source.exists /\ source.text = TextOf(blocks)
        /\ \A i \in 1..Len(blocks) : IsPlainBlock(blocks[i]) \/ IsBitmapBlock(blocks[i]))
        => /\ pc = "parse_done"
           /\ Len(raid_status.device_info) = Len(blocks)
           /\ \A i \in 1..Len(blocks) :
                LET d == raid_status.device_info[i] IN
                /\ IsPlainBlock(blocks[i]) => (HasNoBitmap(d) /\ HasIdleDefaults(d))
                /\ IsBitmapBlock(blocks[i])
                      => (HasBitmapOf(d, blocks[i][3]) /\ HasIdleDefaults(d))

\* A header line, a block-count line and an activity line
IsActivityBlock(block) ==
    /\ Len(block) = 3 /\ block[1].kind = "header" /\ block[2].kind = "blocks"
    /\ block[3].kind = "activity"

\* A header line, a block-count line, an activity line and a bitmap summary
IsActivityBitmapBlock(block) ==
    /\ Len(block) = 4 /\ block[1].kind = "header" /\ block[2].kind = "blocks"
    /\ block[3].kind = "activity" /\ block[4].kind = "bitmap"

\* The activity fields of the record are the figures of the activity line, an
\* absent speed being 0.
HasActivityOf(d, line) ==
    /\ d.current_activity = line.activity_mode
    /\ d.progress_percent = line.progress
    /\ d.currently_processed_block = line.current_block
    /\ d.activity_eta_minutes = line.eta_min
    /\ d.speed_kbytes_per_sec = IF line.has_speed THEN line.speed ELSE 0

\* C16: a text of valid blocks whose third line is an activity line parses into one
\* record per block, with the activity fields of that line; has_bitmap is true iff
\* the block has a fourth line, and then the bitmap fields are those of that line.
C16_BlocksWithActivity ==
    LET blocks == Blocks(source.text) IN
    (pc # "parse_start" /\ source.exists /\ source.text = TextOf(blocks)
        /\ \A i \in 1..Len(blocks) :
              IsActivityBlock(blocks[i]) \/ IsActivityBitmapBlock(blocks[i]))
        => /\ pc = "parse_done"
           /\ Len(raid_status.device_info) = Len(blocks)
           /\ \A i \in 1..Len(blocks) :
                LET d == raid_status.device_info[i] IN
                /\ HasActivityOf(d, blocks[i][3])
                /\ d.has_bitmap <=> Len(blocks[i]) = 4
                /\ IsActivityBlock(blocks[i]) => HasNoBitmap(d)
                /\ IsActivityBitmapBlock(blocks[i]) => HasBitmapOf(d, blocks[i][4])

\* C17: in any snapshot degraded_device_count is the number of records whose
\* current component count is strictly less than the expected one, and
\* total_component_count is the number of component devices of all records.
C17_Aggregates ==
    pc = "parse_done" =>
        LET devs == raid_status.device_info IN
        /\ degraded_device_count(raid_status)
             = Cardinality({i \in 1..Len(devs) :
                   devs[i].current_device_count < devs[i].expected_device_count})
        /\ total_component_count(raid_status)
             = Cardinality(UNION {{<<i, j>> : j \in 1..Len(devs[i].component_devices)} :
                                    i \in 1..Len(devs)})

\* A snapshot of two arrays: one with a component missing, one with a component
\* more than expected; three component devices in all.
C17_Witness ==
    /\ pc = "parse_done" /\ Len(raid_status.device_info) = 2
    /\ raid_status.device_info[1].current_device_count
         < raid_status.device_info[1].expected_device_count
    /\ raid_status.device_info[2].current_device_count
         > raid_status.device_info[2].expected_device_count
    /\ degraded_device_count(raid_status) = 1
    /\ total_component_count(raid_status) = 3

\* C18: every record of every snapshot has current_device_count at most
\* expected_device_count; a block whose block-count line reports more present than
\* expected devices does not become a record.
C18_CurrentAtMostExpected ==
    \A i \in 1..Len(raid_status.device_info) :
        raid_status.device_info[i].current_device_count
            <= raid_status.device_info[i].expected_device_count

\* The info queries of the active, failed and degraded device-count sensors
CountInfoQueries ==
    {"SoftRaid/ActiveDevices?", "SoftRaid/FailedDevices?", "SoftRaid/DegradedDevices?"}

\* C19: the max (third field) an info query of the active, failed or degraded
\* sensor prints is the total device count of the snapshot held when the query is
\* answered, i.e. after the refresh of the same request, if there was one.
C19_MaxIsCurrentTotal ==
    (dispatched /\ last_cmd \in CountInfoQueries)
        => /\ Len(out) = 1 /\ Len(out[1]) = 3
           /\ out[1][3] = str(total_device_count(raid_status))

\* The second request is an info query; its refresh replaced the snapshot by one
\* of two arrays, and 2 is the max printed.
C19_Witness ==
    /\ dispatched /\ last_cmd = "SoftRaid/FailedDevices?" /\ nreq = 2
    /\ raid_status.id = 2 /\ raid_status.built_at > 0
    /\ total_device_count(raid_status) = 2
    /\ out[1][3] = "2"

\* C20: when the refresh of a request fails, the response to that request is a
\* diagnostic: at least one line is printed, none of them is UNKNOWN COMMAND, and
\* no command was dispatched (so no sensor value line is printed).
C20_FailureDiagnostic ==
    pc = "error" =>
        /\ ~dispatched
        /\ out # <<>>
        /\ \A i \in 1..Len(out) : out[i] # <<"UNKNOWN COMMAND">>

\* C21: the cache is a consistent pair: in every state raid_status_age is the time
\* at which the snapshot held in raid_status was built.
C21_CachePair ==
    raid_status_age = raid_status.built_at

\* C22: for every input line the staleness check precedes dispatch: if at least
\* min_interval has passed since the snapshot in use was built and the file is
\* readable and well-formed, the request is answered from a snapshot built from the
\* file during that request; and no request is answered from a snapshot that is
\* min_interval old or older.
C22_Freshness ==
    [][ IsLineStep =>
          /\ (now' - raid_status.built_at >= min_interval_ms * NsPerMs
                /\ RaidStatus(source).ok)
               => /\ dispatched'
                  /\ raid_status'.id = nreq' /\ raid_status'.built_at = now'
                  /\ raid_status'.device_info = RaidStatus(source).device_info
          /\ dispatched'
               => \/ raid_status'.id = nreq' /\ raid_status'.built_at = now'
                  \/ now' - raid_status'.built_at < min_interval_ms * NsPerMs ]_vars

\* With min_interval 1 ms: the second request, handled at 2 ms, is answered from a
\* snapshot built from the file during that request.
C22_Witness ==
    /\ dispatched /\ nreq = 2 /\ min_interval_ms = 1
    /\ now = 2 * Tick /\ raid_status.id = 2 /\ raid_status.built_at = now
    /\ last_cmd = "SoftRaid/TotalComponents" /\ out = << <<"5">> >>

\* The sensor classes whose max is the total device count
CountClasses == {"ActiveDeviceCount", "FailedDeviceCount", "DegradedDeviceCount"}

\* C23: in every state the active and the inactive device count add up to the
\* total device count; and for the active, failed and degraded sensor the value
\* lies between the min and the max the info query reports on the same snapshot,
\* the min being 0, and a response to the sensor's request prints such a value.
C23_AggregateConsistency ==
    /\ active_device_count(raid_status) + inactive_device_count(raid_status)
         = total_device_count(raid_status)
    /\ \A cls \in CountClasses :
         LET info == command_info(cls, raid_status) IN
         \E lo, hi \in 0..total_device_count(raid_status) :
            /\ lo = 0 /\ info[2] = str(lo) /\ info[3] = str(hi)
            /\ \E v \in lo..hi :
                 /\ command_value(cls, raid_status) = str(v)
                 /\ (dispatched /\ last_cmd = command(cls)) => out = << <<str(v)>> >>

\* The failed-device request answered from a snapshot of three arrays, one inactive.
C23_Witness ==
    /\ dispatched /\ last_cmd = "SoftRaid/FailedDevices" /\ out = << <<"1">> >>
    /\ total_device_count(raid_status) = 3 /\ active_device_count(raid_status) = 2
    /\ raid_status.id = nreq

\* C24: every activity line the pattern accepts parses, with or without the
\* optional speed field: a text of valid blocks of two lines, or of three lines
\* the third being an activity line, parses into one record per block, and the
\* record of an activity line without speed has speed_kbytes_per_sec 0, its other
\* activity fields being those of the line.
C24_OptionalSpeed ==
    LET blocks == Blocks(source.text) IN
    (pc # "parse_start" /\ source.exists /\ source.text = TextOf(blocks)
        /\ \A i \in 1..Len(blocks) : IsPlainBlock(blocks[i]) \/ IsActivityBlock(blocks[i]))
        => /\ pc = "parse_done"
           /\ Len(raid_status.device_info) = Len(blocks)
           /\ \A i \in 1..Len(blocks) :
                (IsActivityBlock(blocks[i]) /\ ~blocks[i][3].has_speed)
                    => /\ raid_status.device_info[i].speed_kbytes_per_sec = 0
                       /\ HasActivityOf(raid_status.device_info[i], blocks[i][3])

====
